---- MODULE Spec2Model ----
(***************************************************************************)
(* A model of htmlhl (src/main.rs): the entity decoder html_unescape, the  *)
(* class attribute parser extract_class_attr, the attribute merger         *)
(* update_or_add_class and the block rewriter highlight_html.              *)
(*                                                                         *)
(* A Rust &str is modelled as the sequence of its UTF-8 bytes.  An ASCII   *)
(* byte is the one-character string of that character.  A character that  *)
(* takes n > 1 bytes is a lead byte "U+<code point>" followed by n - 1     *)
(* continuation bytes "cont".  Offsets are byte offsets counted from 0, as *)
(* in the source, so the byte at offset i is s[i + 1].  The grave accent,   *)
(* which a TLA+ string cannot hold, is the byte "U+96".                    *)
(***************************************************************************)
EXTENDS Integers, Sequences, FiniteSets, TLC

VARIABLES
    us, ui, uout, upc,                          \* html_unescape: s, i, out, position
    attrs, add_classes, add_lang, merged, mpc,  \* update_or_add_class: arguments, result
    input, pos, output, blocks, hpc             \* highlight_html: input, scan, result

uvars == <<us, ui, uout, upc>>
mvars == <<attrs, add_classes, add_lang, merged, mpc>>
hvars == <<input, pos, output, blocks, hpc>>
vars == <<us, ui, uout, upc, attrs, add_classes, add_lang, merged, mpc,
          input, pos, output, blocks, hpc>>

(***************************************************************************)
(* Bounds of the model.                                                    *)
(***************************************************************************)
MaxUPieces == 2
MaxAttrPieces == 2
MaxDocPieces == 2

(***************************************************************************)
(* Byte strings.                                                           *)
(***************************************************************************)
Ascii ==
    <<" ", "!", "\"", "#", "$", "%", "&", "'", "(", ")", "*", "+", ",", "-", ".", "/",
      "0", "1", "2", "3", "4", "5", "6", "7", "8", "9", ":", ";", "<", "=", ">", "?",
      "@", "A", "B", "C", "D", "E", "F", "G", "H", "I", "J", "K", "L", "M", "N", "O",
      "P", "Q", "R", "S", "T", "U", "V", "W", "X", "Y", "Z", "[", "\\", "]", "^", "_",
      "U+96", "a", "b", "c", "d", "e", "f", "g", "h", "i", "j", "k", "l", "m", "n", "o",
      "p", "q", "r", "s", "t", "u", "v", "w", "x", "y", "z", "{", "|", "}", "~">>

Range(f) == {f[k] : k \in DOMAIN f}

\* The code point of an ASCII byte (-1 for a byte of a multi-byte character).
Ord(b) ==
    IF b = "\t" THEN 9
    ELSE IF b = "\n" THEN 10
    ELSE IF b = "\f" THEN 12
    ELSE IF b = "\r" THEN 13
    ELSE IF b \in Range(Ascii) THEN 31 + (CHOOSE k \in DOMAIN Ascii : Ascii[k] = b)
    ELSE -1

\* str::is_char_boundary: offset 0, the length, or a byte that is no continuation byte.
IsCharBoundary(s, i) ==
    \/ i = 0
    \/ i = Len(s)
    \/ (0 < i /\ i < Len(s) /\ s[i + 1] # "cont")

\* s[i..].starts_with(p)
StartsWith(s, i, p) ==
    /\ i + Len(p) <= Len(s)
    /\ SubSeq(s, i + 1, i + Len(p)) = p

\* s[i..].find(c): the offset, relative to i, of the first byte c; -1 for None.
Find(s, i, c) ==
    IF \E k \in (i + 1)..Len(s) : s[k] = c
    THEN (CHOOSE k \in (i + 1)..Len(s) :
              s[k] = c /\ \A m \in (i + 1)..(k - 1) : s[m] # c) - (i + 1)
    ELSE -1

\* char::len_utf8 of the character that starts at offset i.
RECURSIVE ContRun(_, _)
ContRun(s, k) == IF k <= Len(s) /\ s[k] = "cont" THEN 1 + ContRun(s, k + 1) ELSE 0

CharLenAt(s, i) == 1 + ContRun(s, i + 2)

\* Code points from CharLimit on are no characters (char::from_u32 is None).
CharLimit == 1114112
SurrogateLo == 55296
SurrogateHi == 57343

\* char::to_digit(radix): -1 for a byte that is no digit of the radix.
ToDigit(b, radix) ==
    LET o == Ord(b)
        d == IF 48 <= o /\ o <= 57 THEN o - 48
             ELSE IF 97 <= o /\ o <= 122 THEN o - 97 + 10
             ELSE IF 65 <= o /\ o <= 90 THEN o - 65 + 10
             ELSE -1
    IN  IF d >= 0 /\ d < radix THEN d ELSE -1

\* The digits of u32::from_str_radix, accumulated left to right.  The value
\* saturates at CharLimit: the source rejects both an overflow of u32 (Err) and
\* a value that char::from_u32 refuses (None) in the same way.
RECURSIVE ParseDigits(_, _, _)
ParseDigits(digits, radix, acc) ==
    IF digits = <<>> THEN acc
    ELSE LET d == ToDigit(Head(digits), radix)
         IN  IF d < 0 THEN -1
             ELSE LET v == acc * radix + d
                  IN  ParseDigits(Tail(digits), radix, IF v > CharLimit THEN CharLimit ELSE v)

\* u32::from_str_radix(src, radix) / str::parse::<u32>: an optional '+' sign,
\* then at least one digit; -1 for Err.
ParseU32(src, radix) ==
    IF src = <<>> THEN -1
    ELSE IF Head(src) \in {"+", "-"} /\ Len(src) = 1 THEN -1
    ELSE IF Head(src) = "+" THEN ParseDigits(Tail(src), radix, 0)
    ELSE ParseDigits(src, radix, 0)

\* std::char::from_u32(code).is_some()
ValidChar(code) ==
    /\ 0 <= code
    /\ code < CharLimit
    /\ ~(SurrogateLo <= code /\ code <= SurrogateHi)

Utf8Len(code) ==
    IF code < 128 THEN 1 ELSE IF code < 2048 THEN 2 ELSE IF code < 65536 THEN 3 ELSE 4

\* String::push(ch): the UTF-8 bytes of the character with this code point.
Chr(code) ==
    IF code = 9 THEN <<"\t">>
    ELSE IF code = 10 THEN <<"\n">>
    ELSE IF code = 12 THEN <<"\f">>
    ELSE IF code = 13 THEN <<"\r">>
    ELSE IF 32 <= code /\ code <= 126 THEN <<Ascii[code - 31]>>
    ELSE <<"U+" \o ToString(code)>> \o [k \in 1..(Utf8Len(code) - 1) |-> "cont"]

(***************************************************************************)
(* html_unescape (src/main.rs 111-165).                                    *)
(***************************************************************************)
Go(i, out) == [i |-> i, out |-> out, panic |-> FALSE]
Panic(i, out) == [i |-> i, out |-> out, panic |-> TRUE]

\* A numeric reference at offset i: skip is the length of "&#x" or "&#".
NumericRef(s, i, out, skip, radix) ==
    LET j == Find(s, i, ";")
        code == IF j >= 0 THEN ParseU32(SubSeq(s, i + skip + 1, i + j), radix) ELSE -1
    IN  IF j >= 0 /\ code >= 0 /\ ValidChar(code)
        THEN Go(i + j + 1, out \o Chr(code))
        ELSE Go(i + 1, Append(out, "&"))

\* One iteration of the while loop, at offset i < s.len().
UnescapeStep(s, i, out) ==
    IF ~IsCharBoundary(s, i + 1)
    THEN Panic(i, out)        \* &s[i..i + 1] ends inside a character
    ELSE IF s[i + 1] = "&"
    THEN IF StartsWith(s, i, <<"&", "l", "t", ";">>) THEN Go(i + 4, Append(out, "<"))
         ELSE IF StartsWith(s, i, <<"&", "g", "t", ";">>) THEN Go(i + 4, Append(out, ">"))
         ELSE IF StartsWith(s, i, <<"&", "a", "m", "p", ";">>) THEN Go(i + 5, Append(out, "&"))
         ELSE IF StartsWith(s, i, <<"&", "q", "u", "o", "t", ";">>) THEN Go(i + 6, Append(out, "\""))
         ELSE IF StartsWith(s, i, <<"&", "#", "x">>) \/ StartsWith(s, i, <<"&", "#", "X">>)
         THEN NumericRef(s, i, out, 3, 16)
         ELSE IF StartsWith(s, i, <<"&", "#">>) THEN NumericRef(s, i, out, 2, 10)
         ELSE Go(i + 1, Append(out, "&"))
    ELSE LET n == CharLenAt(s, i)
         IN  Go(i + n, out \o SubSeq(s, i + 1, i + n))

RECURSIVE UnescapeLoop(_, _, _)
UnescapeLoop(s, i, out) ==
    IF i < Len(s)
    THEN LET r == UnescapeStep(s, i, out)
         IN  IF r.panic THEN r ELSE UnescapeLoop(s, r.i, r.out)
    ELSE Go(i, out)

\* The call as a whole: .panic, or the returned string .out.
html_unescape(s) == UnescapeLoop(s, 0, <<>>)

(***************************************************************************)
(* The class patterns of extract_class_attr and update_or_add_class.       *)
(***************************************************************************)
\* The patterns are  class\s*=\s*"([^"]*)"  and  class\s*=\s*'([^']*)'  in
\* update_or_add_class, and the same with + for the last * in
\* extract_class_attr.  A search returns the match that starts leftmost.

\* The white space of \s, str::trim and str::split_whitespace: the characters
\* with the Unicode property White_Space, each named by its first byte.
\* U+0009 to U+000D and the space take one byte; U+0085 and U+00A0 take two;
\* U+1680, U+2000 to U+200A, U+2028, U+2029, U+202F, U+205F and U+3000 three.
WS ==
    {"\t", "\n", "U+11", "\f", "\r", " ", "U+133", "U+160", "U+5760",
     "U+8192", "U+8193", "U+8194", "U+8195", "U+8196", "U+8197", "U+8198",
     "U+8199", "U+8200", "U+8201", "U+8202", "U+8232", "U+8233", "U+8239",
     "U+8287", "U+12288"}

None == [some |-> FALSE, val |-> <<>>]
Some(v) == [some |-> TRUE, val |-> v]

\* \s*: the offset of the first character at or after k that is no white space.
RECURSIVE SkipWs(_, _)
SkipWs(s, k) ==
    IF k < Len(s) /\ s[k + 1] \in WS THEN SkipWs(s, k + CharLenAt(s, k)) ELSE k

NoMatch == [ok |-> FALSE, start |-> 0, end |-> 0, g1 |-> <<>>]

\* The pattern anchored at offset p, with quote q and at least min value bytes.
ClassMatchAt(s, p, q, min) ==
    IF ~StartsWith(s, p, <<"c", "l", "a", "s", "s">>) THEN NoMatch
    ELSE LET e == SkipWs(s, p + 5)
         IN  IF ~StartsWith(s, e, <<"=">>) THEN NoMatch
             ELSE LET o == SkipWs(s, e + 1)
                  IN  IF ~StartsWith(s, o, <<q>>) THEN NoMatch
                      ELSE LET j == Find(s, o + 1, q)
                           IN  IF j < min THEN NoMatch
                               ELSE [ok |-> TRUE, start |-> p, end |-> o + 1 + j + 1,
                                     g1 |-> SubSeq(s, o + 2, o + 1 + j)]

\* Regex::captures: the match with the least start offset.
ClassCaptures(s, q, min) ==
    LET hits == {p \in 0..Len(s) : ClassMatchAt(s, p, q, min).ok}
    IN  IF hits = {} THEN NoMatch
        ELSE ClassMatchAt(s, CHOOSE p \in hits : \A r \in hits : p <= r, q, min)

(***************************************************************************)
(* extract_class_attr (src/main.rs 167-177).                               *)
(***************************************************************************)
extract_class_attr(a) ==
    LET dq == ClassCaptures(a, "\"", 1)
        sq == ClassCaptures(a, "'", 1)
    IN  IF dq.ok THEN Some(dq.g1)
        ELSE IF sq.ok THEN Some(sq.g1)
        ELSE None

(***************************************************************************)
(* str::split_whitespace, join(" "), trim().is_empty().                    *)
(***************************************************************************)
\* The end of the token at offset k: the offset of the next white space
\* character (a continuation byte is none), or the length.
RECURSIVE TokenEnd(_, _)
TokenEnd(s, k) == IF k < Len(s) /\ s[k + 1] \notin WS THEN TokenEnd(s, k + 1) ELSE k

RECURSIVE SplitFrom(_, _)
SplitFrom(s, k) ==
    LET b == SkipWs(s, k)
    IN  IF b >= Len(s) THEN <<>>
        ELSE LET e == TokenEnd(s, b)
             IN  <<SubSeq(s, b + 1, e)>> \o SplitFrom(s, e)

split_whitespace(s) == SplitFrom(s, 0)

RECURSIVE Join(_)
Join(parts) ==
    IF parts = <<>> THEN <<>>
    ELSE IF Len(parts) = 1 THEN parts[1]
    ELSE parts[1] \o <<" ">> \o Join(Tail(parts))

\* s.trim().is_empty(): every character is white space.
IsBlank(s) == SkipWs(s, 0) >= Len(s)

(***************************************************************************)
(* The replacement string of Regex::replace is expanded (regex's           *)
(* Captures::expand): $$ is a dollar sign, $name and ${name} stand for the *)
(* capture group of that number or name, and for nothing when there is no  *)
(* such group.  The class patterns have groups 0 (the match) and 1.        *)
(***************************************************************************)
IsCapLetter(b) ==
    LET o == Ord(b)
    IN  \/ (48 <= o /\ o <= 57)
        \/ (97 <= o /\ o <= 122)
        \/ (65 <= o /\ o <= 90)
        \/ b = "_"

RECURSIVE CapEnd(_, _)
CapEnd(rep, k) == IF k < Len(rep) /\ IsCapLetter(rep[k + 1]) THEN CapEnd(rep, k + 1) ELSE k

\* The text a reference called name stands for.
GroupText(name, whole, g1) ==
    LET n == ParseU32(name, 10)
    IN  IF n = 0 THEN whole ELSE IF n = 1 THEN g1 ELSE <<>>

RECURSIVE Expand(_, _, _, _)
Expand(rep, k, whole, g1) ==
    IF k >= Len(rep) THEN <<>>
    ELSE IF rep[k + 1] # "$" THEN <<rep[k + 1]>> \o Expand(rep, k + 1, whole, g1)
    ELSE IF StartsWith(rep, k, <<"$", "$">>) THEN <<"$">> \o Expand(rep, k + 2, whole, g1)
    ELSE IF StartsWith(rep, k, <<"$", "{">>)
    THEN LET j == Find(rep, k + 2, "}")
         IN  IF j < 0 THEN <<"$">> \o Expand(rep, k + 1, whole, g1)
             ELSE GroupText(SubSeq(rep, k + 3, k + 2 + j), whole, g1)
                      \o Expand(rep, k + 2 + j + 1, whole, g1)
    ELSE LET e == CapEnd(rep, k + 1)
         IN  IF e = k + 1 THEN <<"$">> \o Expand(rep, k + 1, whole, g1)
             ELSE GroupText(SubSeq(rep, k + 2, e), whole, g1) \o Expand(rep, e, whole, g1)

\* Regex::replace(s, rep): the first match m replaced by the expanded rep.
RegexReplace(s, m, rep) ==
    SubSeq(s, 1, m.start)
        \o Expand(rep, 0, SubSeq(s, m.start + 1, m.end), m.g1)
        \o SubSeq(s, m.end + 1, Len(s))

(***************************************************************************)
(* update_or_add_class (src/main.rs 181-236).                              *)
(***************************************************************************)
\* combined: add_classes, then a space and add_lang.
Combined(addc, lang) ==
    IF ~lang.some THEN addc
    ELSE IF addc # <<>> THEN addc \o <<" ">> \o lang.val
    ELSE lang.val

\* parts, then each token of combined that parts does not hold yet.
RECURSIVE PushMissing(_, _)
PushMissing(parts, new) ==
    IF new = <<>> THEN parts
    ELSE IF \E k \in DOMAIN parts : parts[k] = Head(new)
         THEN PushMissing(parts, Tail(new))
         ELSE PushMissing(Append(parts, Head(new)), Tail(new))

NewClass(existing, combined) ==
    Join(PushMissing(split_whitespace(existing), split_whitespace(combined)))

\* attrs_owned after the if / else if chain of lines 197-227.
MergedAttrs(a, combined) ==
    LET dq == ClassCaptures(a, "\"", 0)
        sq == ClassCaptures(a, "'", 0)
    IN  IF dq.ok
        THEN RegexReplace(a, dq, <<"c", "l", "a", "s", "s", "=", "\"">> \o NewClass(dq.g1, combined) \o <<"\"">>)
        ELSE IF sq.ok
        THEN RegexReplace(a, sq, <<"c", "l", "a", "s", "s", "=", "'">> \o NewClass(sq.g1, combined) \o <<"'">>)
        ELSE IF combined # <<>>
        THEN IF IsBlank(a)
             THEN <<" ", "c", "l", "a", "s", "s", "=", "\"">> \o combined \o <<"\"">>
             ELSE a \o <<" ", "c", "l", "a", "s", "s", "=", "\"">> \o combined \o <<"\"">>
        ELSE a

\* A space put in front of every text that is not blank.
LeadingSpaceAlways(a) == IF IsBlank(a) THEN <<>> ELSE <<" ">> \o a

\* The final normalisation of lines 229-235.
LeadingSpace(a) ==
    IF IsBlank(a) THEN <<>>
    ELSE IF StartsWith(a, 0, <<" ">>) THEN a
    ELSE <<" ">> \o a

update_or_add_class(a, addc, lang) == LeadingSpace(MergedAttrs(a, Combined(addc, lang)))

(***************************************************************************)
(* highlight_html (src/main.rs 240-305).                                   *)
(***************************************************************************)
\* The keys of the map language_map() builds.
language_map == {<<"r", "u", "s", "t">>, <<"j", "a", "v", "a", "s", "c", "r", "i", "p", "t">>, <<"h", "t", "m", "l">>, <<"c", "s", "s">>, <<"p", "y", "t", "h", "o", "n">>}

\* What HtmlRenderer may hand back for a block: the engine is a library, so
\* its answer is any of these, or an error.
Renderings == {<<"<", "s", "p", "a", "n", " ", "c", "l", "a", "s", "s", "=", "\"", "k", "e", "y", "w", "o", "r", "d", "\"", ">", "f", "n", "<", "/", "s", "p", "a", "n", ">">>, <<"x", " ", "&", "l", "t", ";", " ", "1">>}

SourceCode == <<"s", "o", "u", "r", "c", "e", "C", "o", "d", "e">>

NoBlock == [ok |-> FALSE, start |-> 0, end |-> 0,
            pre_attrs |-> <<>>, code_attrs |-> <<>>, code |-> <<>>]

\* </code>\s*</pre> at offset q.
CloseAt(d, q) ==
    /\ StartsWith(d, q, <<"<", "/", "c", "o", "d", "e", ">">>)
    /\ StartsWith(d, SkipWs(d, q + 7), <<"<", "/", "p", "r", "e", ">">>)

\* (?s)<pre([^>]*)>\s*<code([^>]*)>(.*?)</code>\s*</pre> anchored at offset p.
BlockMatchAt(d, p) ==
    IF ~StartsWith(d, p, <<"<", "p", "r", "e">>) THEN NoBlock
    ELSE LET g == Find(d, p + 4, ">")
         IN  IF g < 0 THEN NoBlock
             ELSE LET k == SkipWs(d, p + 4 + g + 1)
                  IN  IF ~StartsWith(d, k, <<"<", "c", "o", "d", "e">>) THEN NoBlock
                      ELSE LET h == Find(d, k + 5, ">")
                               b == k + 5 + h + 1
                               ends == {q \in b..Len(d) : CloseAt(d, q)}
                           IN  IF h < 0 \/ ends = {} THEN NoBlock
                               ELSE LET q == CHOOSE x \in ends : \A y \in ends : x <= y
                                    IN  [ok |-> TRUE, start |-> p,
                                         end |-> SkipWs(d, q + 7) + 6,
                                         pre_attrs |-> SubSeq(d, p + 5, p + 4 + g),
                                         code_attrs |-> SubSeq(d, k + 6, k + 5 + h),
                                         code |-> SubSeq(d, b + 1, q)]

\* The next match of replace_all: the leftmost one that starts at or after from.
NextMatch(d, from) ==
    LET hits == {p \in from..Len(d) : BlockMatchAt(d, p).ok}
    IN  IF hits = {} THEN NoBlock
        ELSE BlockMatchAt(d, CHOOSE p \in hits : \A r \in hits : p <= r)

\* The block written anew from its parts, without the white space between the tags.
VerbatimRebuilt(d, m) ==
    <<"<", "p", "r", "e">> \o m.pre_attrs \o <<">", "<", "c", "o", "d", "e">> \o m.code_attrs \o <<">">> \o m.code \o <<"<", "/", "c", "o", "d", "e", ">", "<", "/", "p", "r", "e", ">">>

\* caps[0].to_string(): the matched text.
Verbatim(d, m) == SubSeq(d, m.start + 1, m.end)

\* The text between the previous match (or the start) and the match m.
Gap(d, from, m) == SubSeq(d, from + 1, m.start)

\* for token in class.split_whitespace() { if configs.contains_key(token) ... break }
FirstRegistered(class) ==
    LET toks == split_whitespace(class)
        hits == {k \in DOMAIN toks : toks[k] \in language_map}
    IN  IF hits = {} THEN None
        ELSE Some(toks[CHOOSE k \in hits : \A r \in hits : k <= r])

\* The two tiers in the other order: the pre class first.
ResolveLangPreFirst(code_attrs, pre_attrs) ==
    LET cc == extract_class_attr(code_attrs)
        pc == extract_class_attr(pre_attrs)
        fromPre == IF pc.some THEN FirstRegistered(pc.val) ELSE None
    IN  IF fromPre.some THEN fromPre
        ELSE IF cc.some THEN FirstRegistered(cc.val)
        ELSE None

\* lang_opt of lines 252-274: the code class first, then the pre class.
ResolveLang(code_attrs, pre_attrs) ==
    LET cc == extract_class_attr(code_attrs)
        pc == extract_class_attr(pre_attrs)
        fromCode == IF cc.some THEN FirstRegistered(cc.val) ELSE None
    IN  IF fromCode.some THEN fromCode
        ELSE IF pc.some THEN FirstRegistered(pc.val)
        ELSE None

\* The Ok arm of lines 289-297.
Replacement(pre_attrs, code_attrs, lang, rendered) ==
    <<"<", "d", "i", "v", " ", "c", "l", "a", "s", "s", "=", "\"", "s", "o", "u", "r", "c", "e", "C", "o", "d", "e", "\"", ">", "<", "p", "r", "e">>
        \o update_or_add_class(pre_attrs, SourceCode, None)
        \o <<">", "<", "c", "o", "d", "e">>
        \o update_or_add_class(code_attrs, SourceCode, Some(lang))
        \o <<">">> \o rendered \o <<"<", "/", "c", "o", "d", "e", ">", "<", "/", "p", "r", "e", ">", "<", "/", "d", "i", "v", ">">>

\* An error that ends the rewriting: the rest of the document is copied as it is.
AbortOnEngineErr(d, m) == [text |-> SubSeq(d, m.start + 1, Len(d)), next |-> Len(d)]

\* The Err arm of line 298: the text for the block and where the scan goes on.
OnEngineErr(d, m) == [text |-> Verbatim(d, m), next |-> m.end]

\* What is recorded of a handled block.
Handled(m, lang, outcome, decoded, rendered, text) ==
    [start |-> m.start, end |-> m.end, pre_attrs |-> m.pre_attrs,
     code_attrs |-> m.code_attrs, code |-> m.code, lang |-> lang,
     outcome |-> outcome, decoded |-> decoded, rendered |-> rendered, text |-> text]

(***************************************************************************)
(* Inputs: every concatenation of at most n pieces.                        *)
(***************************************************************************)
RECURSIVE Concats(_, _)
Concats(pieces, n) ==
    IF n = 0 THEN {<<>>}
    ELSE LET shorter == Concats(pieces, n - 1)
         IN  shorter \cup {a \o p : a \in shorter, p \in pieces}

UPieces ==
    {<<"&", "l", "t", ";">>, <<"&", "g", "t", ";">>, <<"&", "a", "m", "p", ";">>, <<"&", "q", "u", "o", "t", ";">>, <<"&", "#", "6", "5", ";">>, <<"&", "#", "x", "4", "1", ";">>, <<"&", "#", "X", "3", "c", ";">>, <<"&", "#", "2", "3", "3", ";">>,
     <<"&", "#", "+", "6", "5", ";">>, <<"&", "#", "x", "+", "4", "1", ";">>, <<"&", "#", "-", "6", "5", ";">>, <<"&", "#", "x", "D", "8", "0", "0", ";">>, <<"&", "#", "x", "1", "1", "0", "0", "0", "0", ";">>, <<"&", "#", "9", "9", "9", "9", "9", "9", "9", "9", "9", "9", "9", ";">>,
     <<"&", "#", ";">>, <<"&", "#", "x", ";">>, <<"&">>, <<"&", "#">>, <<"&", "#", "x", "4">>, <<";">>, <<"a">>, <<"l", "t", ";">>, <<"1", ";">>, <<"U+233", "cont">>, <<"U+8364", "cont", "cont">>}

AttrPieces ==
    {<<" ">>, <<"\t">>, <<"i", "d", "=", "\"", "x", "\"">>, <<"c", "l", "a", "s", "s", "=", "\"", "a", " ", "b", "\"">>, <<"c", "l", "a", "s", "s", "=", "'", "a", " ", "b", "'">>, <<"c", "l", "a", "s", "s", "=", "\"", "\"">>, <<"c", "l", "a", "s", "s", " ", "=", " ", "\"", "s", "o", "u", "r", "c", "e", "C", "o", "d", "e", "\"">>,
     <<"c", "l", "a", "s", "s", "=", "\"", "r", "u", "s", "t", " ", "a", "\"">>, <<"d", "a", "t", "a", "-", "c", "l", "a", "s", "s", "=", "\"", "x", "\"">>, <<"c", "l", "a", "s", "s", "=", "\"", "$", "x", "\"">>, <<"c", "l", "a", "s", "s", "=", "'", "a", "$", "1", "'">>, <<"d", "a", "t", "a", "-", "y", "=", "\"", "1", "\"">>, <<" ", " ", "t", "i", "t", "l", "e", "=", "\"", "t", "\"", " ">>,
     <<"U+160", "cont">>, <<"c", "l", "a", "s", "s", "U+160", "cont", "=", "\"", "a", "U+8195", "cont", "cont", "b", "\"">>}

AddClasses == {<<>>, SourceCode}
AddLangs == {None, Some(<<"r", "u", "s", "t">>), Some(<<"a">>)}

DocPieces ==
    {<<"<", "p", "r", "e", ">", "<", "c", "o", "d", "e", " ", "c", "l", "a", "s", "s", "=", "\"", "r", "u", "s", "t", "\"", ">", "f", "n", " ", "&", "l", "t", ";", "<", "/", "c", "o", "d", "e", ">", "<", "/", "p", "r", "e", ">">>,
     <<"<", "p", "r", "e", " ", "c", "l", "a", "s", "s", "=", "\"", "p", "y", "t", "h", "o", "n", "\"", ">", "<", "c", "o", "d", "e", ">", "x", " ", "=", " ", "1", "<", "/", "c", "o", "d", "e", ">", "<", "/", "p", "r", "e", ">">>,
     <<"<", "p", "r", "e", " ", "c", "l", "a", "s", "s", "=", "\"", "a", " ", "p", "y", "t", "h", "o", "n", "\"", " ", "i", "d", "=", "\"", "p", "\"", ">", "<", "c", "o", "d", "e", " ", "c", "l", "a", "s", "s", "=", "'", "b", " ", "c", "s", "s", " ", "r", "u", "s", "t", "'", ">", "&", "a", "m", "p", ";", "<", "/", "c", "o", "d", "e", ">", " ", "<", "/", "p", "r", "e", ">">>,
     <<"s", "e", "e", " ", "<", "p", "r", "e", ">", "\n", "<", "c", "o", "d", "e", " ", "c", "l", "a", "s", "s", "=", "\"", "c", "o", "b", "o", "l", "\"", ">", "P", "R", "O", "G", "R", "A", "M", ".", "<", "/", "c", "o", "d", "e", ">", "<", "/", "p", "r", "e", ">">>,
     <<"<", "p", "r", "e", " ", "d", "a", "t", "a", "-", "c", "l", "a", "s", "s", "=", "\"", "x", "\"", ">", "\n", "<", "c", "o", "d", "e", " ", "d", "a", "t", "a", "-", "c", "l", "a", "s", "s", "=", "\"", "h", "t", "m", "l", "\"", ">", "&", "#", "+", "6", "5", ";", "<", "/", "c", "o", "d", "e", ">", "\n", "<", "/", "p", "r", "e", ">">>,
     <<"<", "p", "r", "e", ">", "<", "c", "o", "d", "e", " ", "c", "l", "a", "s", "s", "=", "\"", "c", "s", "s", "\"", ">", "U+233", "cont", "<", "/", "c", "o", "d", "e", ">", "<", "/", "p", "r", "e", ">">>,
     <<"<", "p", "r", "e", ">", "U+160", "cont", "<", "c", "o", "d", "e", " ", "c", "l", "a", "s", "s", "U+160", "cont", "=", "\"", "x", "U+8195", "cont", "cont", "r", "u", "s", "t", "\"", ">", "y", "<", "/", "c", "o", "d", "e", ">", "U+8195", "cont", "cont", "<", "/", "p", "r", "e", ">">>,
     <<"<", "p", "r", "e", " ", ">", "<", "c", "o", "d", "e", " ", "c", "l", "a", "s", "s", "=", "\"", "r", "u", "s", "t", "\"", ">">>,
     <<"<", "/", "c", "o", "d", "e", ">", "<", "/", "p", "r", "e", ">">>,
     <<"<", "p", ">", "a", " ", "&", "l", "t", ";", " ", "b", "<", "/", "p", ">">>,
     <<"<", "c", "o", "d", "e", " ", "c", "l", "a", "s", "s", "=", "\"", "r", "u", "s", "t", "\"", ">", "i", "<", "/", "c", "o", "d", "e", ">">>}

Idle == "idle"
UIdle == us = <<>> /\ ui = 0 /\ uout = <<>> /\ upc = Idle
MIdle == attrs = <<>> /\ add_classes = <<>> /\ add_lang = None /\ merged = <<>> /\ mpc = Idle
HIdle == input = <<>> /\ pos = 0 /\ output = <<>> /\ blocks = <<>> /\ hpc = Idle

(***************************************************************************)
(* html_unescape, one loop iteration per step.                             *)
(***************************************************************************)
InitUnescape ==
    /\ us \in Concats(UPieces, MaxUPieces)
    /\ ui = 0
    /\ uout = <<>>
    /\ upc = "scan"
    /\ MIdle /\ HIdle

UnescapeIter ==
    /\ upc = "scan"
    /\ ui < Len(us)
    /\ LET r == UnescapeStep(us, ui, uout)
       IN  /\ ui' = r.i
           /\ uout' = r.out
           /\ upc' = IF r.panic THEN "panic" ELSE "scan"
    /\ UNCHANGED <<us, mvars, hvars>>

UnescapeReturn ==
    /\ upc = "scan"
    /\ ui >= Len(us)
    /\ upc' = "done"
    /\ UNCHANGED <<us, ui, uout, mvars, hvars>>

NextUnescape == UnescapeIter \/ UnescapeReturn

SpecUnescape == InitUnescape /\ [][NextUnescape]_vars

(***************************************************************************)
(* update_or_add_class, one call per step.                                 *)
(***************************************************************************)
InitMerge ==
    /\ attrs \in Concats(AttrPieces, MaxAttrPieces)
    /\ add_classes \in AddClasses
    /\ add_lang \in AddLangs
    /\ merged = <<>>
    /\ mpc = "call"
    /\ UIdle /\ HIdle

Merge ==
    /\ mpc = "call"
    /\ merged' = update_or_add_class(attrs, add_classes, add_lang)
    /\ mpc' = "done"
    /\ UNCHANGED <<attrs, add_classes, add_lang, uvars, hvars>>

NextMerge == Merge

SpecMerge == InitMerge /\ [][NextMerge]_vars

(***************************************************************************)
(* highlight_html, one match of replace_all per step.                      *)
(***************************************************************************)
Init ==
    /\ input \in Concats(DocPieces, MaxDocPieces)
    /\ pos = 0
    /\ output = <<>>
    /\ blocks = <<>>
    /\ hpc = "scan"
    /\ UIdle /\ MIdle

\* No registered language in either class: the match is copied.
PassThrough ==
    /\ hpc = "scan"
    /\ \E m \in {NextMatch(input, pos)} :
       \E lang \in {ResolveLang(m.code_attrs, m.pre_attrs)} :
           /\ m.ok
           /\ ~lang.some
           /\ output' = output \o Gap(input, pos, m) \o Verbatim(input, m)
           /\ blocks' = Append(blocks, Handled(m, lang, "pass", <<>>, <<>>, Verbatim(input, m)))
           /\ pos' = m.end
    /\ UNCHANGED <<input, hpc, uvars, mvars>>

\* The engine returns Ok(rendered).
HighlightOk ==
    /\ hpc = "scan"
    /\ \E m \in {NextMatch(input, pos)} :
       \E lang \in {ResolveLang(m.code_attrs, m.pre_attrs)} :
           /\ m.ok
           /\ lang.some
           /\ \E decoded \in {html_unescape(m.code)} :
              \E rendered \in Renderings :
              \E text \in {Replacement(m.pre_attrs, m.code_attrs, lang.val, rendered)} :
                  /\ ~decoded.panic
                  /\ output' = output \o Gap(input, pos, m) \o text
                  /\ blocks' = Append(blocks,
                                      Handled(m, lang, "ok", decoded.out, rendered, text))
           /\ pos' = m.end
    /\ UNCHANGED <<input, hpc, uvars, mvars>>

\* The engine returns Err.
HighlightErr ==
    /\ hpc = "scan"
    /\ \E m \in {NextMatch(input, pos)} :
       \E lang \in {ResolveLang(m.code_attrs, m.pre_attrs)} :
           /\ m.ok
           /\ lang.some
           /\ \E decoded \in {html_unescape(m.code)} :
              \E r \in {OnEngineErr(input, m)} :
                  /\ ~decoded.panic
                  /\ output' = output \o Gap(input, pos, m) \o r.text
                  /\ blocks' = Append(blocks,
                                      Handled(m, lang, "err", decoded.out, <<>>, r.text))
                  /\ pos' = r.next
    /\ UNCHANGED <<input, hpc, uvars, mvars>>

\* html_unescape panics on the body: highlight_html returns nothing.
UnescapePanic ==
    /\ hpc = "scan"
    /\ \E m \in {NextMatch(input, pos)} :
       \E lang \in {ResolveLang(m.code_attrs, m.pre_attrs)} :
           /\ m.ok
           /\ lang.some
           /\ html_unescape(m.code).panic
    /\ hpc' = "panic"
    /\ UNCHANGED <<input, pos, output, blocks, uvars, mvars>>

\* No further match: the rest of the input is copied and the result returned.
Finish ==
    /\ hpc = "scan"
    /\ ~NextMatch(input, pos).ok
    /\ output' = output \o SubSeq(input, pos + 1, Len(input))
    /\ pos' = Len(input)
    /\ hpc' = "done"
    /\ UNCHANGED <<input, blocks, uvars, mvars>>

Next == PassThrough \/ HighlightOk \/ HighlightErr \/ UnescapePanic \/ Finish

Spec == Init /\ [][Next]_vars

(***************************************************************************)
(* What the claims speak of: the attributes of a tag, read as HTML reads   *)
(* them (a name, then optionally = and a quoted or bare value), and the    *)
(* references the entity decoder is to recognise.                          *)
(***************************************************************************)
RECURSIVE NameEnd(_, _)
NameEnd(a, k) ==
    IF k < Len(a) /\ a[k + 1] \notin WS \cup {"="} THEN NameEnd(a, k + 1) ELSE k

\* The attribute that starts at offset k (a byte that is no white space).
AttrAt(a, k) ==
    LET n == NameEnd(a, k)
        e == SkipWs(a, n)
        v == SkipWs(a, e + 1)
        name == SubSeq(a, k + 1, n)
    IN  IF ~StartsWith(a, e, <<"=">>)
        THEN [name |-> name, quote |-> "", value |-> <<>>, start |-> k,
              end |-> IF n > k THEN n ELSE k + 1]
        ELSE IF v < Len(a) /\ a[v + 1] \in {"\"", "'"}
        THEN LET j == Find(a, v + 1, a[v + 1])
                 close == IF j < 0 THEN Len(a) ELSE v + 1 + j
             IN  [name |-> name, quote |-> a[v + 1], value |-> SubSeq(a, v + 2, close),
                  start |-> k, end |-> IF j < 0 THEN Len(a) ELSE close + 1]
        ELSE [name |-> name, quote |-> "", value |-> SubSeq(a, v + 1, TokenEnd(a, v)),
              start |-> k, end |-> IF TokenEnd(a, v) > k THEN TokenEnd(a, v) ELSE k + 1]

\* The attributes of an attribute string, in order.
Attributes(a) ==
    LET f[k \in 0..Len(a)] ==
            IF SkipWs(a, k) >= Len(a) THEN <<>>
            ELSE <<AttrAt(a, SkipWs(a, k))>> \o f[AttrAt(a, SkipWs(a, k)).end]
    IN  f[0]

AttrText(a, at) == SubSeq(a, at.start + 1, at.end)

\* The attributes named exactly class.
ClassAttrs(a) == SelectSeq(Attributes(a), LAMBDA at : at.name = <<"c", "l", "a", "s", "s">>)

\* The class list of a tag: the tokens of its first class attribute.
ClassList(a) ==
    IF ClassAttrs(a) = <<>> THEN <<>> ELSE split_whitespace(ClassAttrs(a)[1].value)

HasClass(a, token) == \E k \in DOMAIN ClassList(a) : ClassList(a)[k] = token

\* s holds t as a contiguous piece.
Contains(s, t) == \E k \in 0..(Len(s) - Len(t)) : StartsWith(s, k, t)

\* old, then the tokens of new that are neither in old nor earlier in new.
OrderedUnion(old, new) ==
    old \o SelectSeq([k \in DOMAIN new |->
                         IF (\E j \in DOMAIN old : old[j] = new[k])
                                \/ (\E j \in 1..(k - 1) : new[j] = new[k])
                         THEN <<>> ELSE new[k]],
                     LAMBDA t : t # <<>>)

\* A well-formed numeric reference at offset k: the prefix, one or more
\* digits of the radix and nothing else, then ';', naming a character.
DigitsOnly(digits, radix) ==
    /\ digits # <<>>
    /\ \A j \in DOMAIN digits : ToDigit(digits[j], radix) >= 0

\* The reference recognised at offset k: its length .n and its text .emit.
RefAt(s, k) ==
    LET j == Find(s, k, ";")
        hex == StartsWith(s, k, <<"&", "#", "x">>) \/ StartsWith(s, k, <<"&", "#", "X">>)
        skip == IF hex THEN 3 ELSE 2
        radix == IF hex THEN 16 ELSE 10
        digits == SubSeq(s, k + skip + 1, k + j)
    IN  IF s[k + 1] # "&" THEN [n |-> CharLenAt(s, k), emit |-> SubSeq(s, k + 1, k + CharLenAt(s, k))]
        ELSE IF StartsWith(s, k, <<"&", "l", "t", ";">>) THEN [n |-> 4, emit |-> <<"<">>]
        ELSE IF StartsWith(s, k, <<"&", "g", "t", ";">>) THEN [n |-> 4, emit |-> <<">">>]
        ELSE IF StartsWith(s, k, <<"&", "a", "m", "p", ";">>) THEN [n |-> 5, emit |-> <<"&">>]
        ELSE IF StartsWith(s, k, <<"&", "q", "u", "o", "t", ";">>) THEN [n |-> 6, emit |-> <<"\"">>]
        ELSE IF /\ StartsWith(s, k, <<"&", "#">>)
                /\ j >= skip
                /\ DigitsOnly(digits, radix)
                /\ ValidChar(ParseDigits(digits, radix, 0))
        THEN [n |-> j + 1, emit |-> Chr(ParseDigits(digits, radix, 0))]
        ELSE [n |-> 1, emit |-> <<"&">>]

\* The decoding the specification describes.
RefUnescape(s) ==
    LET f[k \in 0..Len(s)] ==
            IF k >= Len(s) THEN <<>> ELSE RefAt(s, k).emit \o f[k + RefAt(s, k).n]
    IN  f[0]

(***************************************************************************)
(* Claims about html_unescape, under SpecUnescape.                         *)
(***************************************************************************)
\* C5: html_unescape never fails and never splits a multi-byte character:
\* for every input, also one with characters of more than one byte, every
\* slice the scan takes begins and ends on a character boundary and the call
\* does not panic.
C5_NeverFailsOnCharBoundaries ==
    /\ upc # "panic"
    /\ (upc = "scan" /\ ui < Len(us)) =>
           (IsCharBoundary(us, ui) /\ IsCharBoundary(us, ui + 1))

\* C6: html_unescape decodes exactly the recognised references: the four named
\* ones and the numeric ones made of digits only that name a character; any other
\* ampersand, also one followed by a sign and digits, comes out as '&' and the
\* scan goes on at the next byte.
C6_DecodesExactlyRecognised == (upc = "done") => (uout = RefUnescape(us))

(***************************************************************************)
(* Claims about update_or_add_class, under SpecMerge.                      *)
(***************************************************************************)
\* The classes a call is to add, as tokens.
NewTokens == split_whitespace(Combined(add_classes, add_lang))

\* Neither class pattern matches attrs.
NoClassMatch == ~ClassCaptures(attrs, "\"", 0).ok /\ ~ClassCaptures(attrs, "'", 0).ok

\* C7: the merge is idempotent: merging the same classes into the result of
\* a merge returns that result unchanged.
C7_MergeIdempotent ==
    (mpc = "done") => (update_or_add_class(merged, add_classes, add_lang) = merged)

\* C8: the merge leaves every attribute other than class untouched: the text
\* of each attribute whose name is not exactly class, also one whose name
\* only ends in class, is found unchanged in the result.
C8_OtherAttributesVerbatim ==
    (mpc = "done") =>
        \A k \in DOMAIN Attributes(attrs) :
            Attributes(attrs)[k].name # <<"c", "l", "a", "s", "s">> =>
                Contains(merged, AttrText(attrs, Attributes(attrs)[k]))

\* C9: when attrs has a class attribute, the result's class attribute holds
\* the ordered union: the existing tokens in their order, then each new token
\* not yet present, joined by single spaces, in the quotes the attribute had.
C9_OrderedUnionOfClasses ==
    (mpc = "done" /\ ClassAttrs(attrs) # <<>> /\ ClassAttrs(attrs)[1].quote # "") =>
        /\ ClassAttrs(merged) # <<>>
        /\ ClassAttrs(merged)[1].quote = ClassAttrs(attrs)[1].quote
        /\ ClassAttrs(merged)[1].value =
               Join(OrderedUnion(split_whitespace(ClassAttrs(attrs)[1].value), NewTokens))

\* C10, as the specification states it: the result is empty or begins with
\* exactly one space followed by a byte that is no white space, and a new
\* class attribute is appended after the trimmed attribute text.
TrimEnd(a) ==
    IF IsBlank(a) THEN <<>>
    ELSE LET k == CHOOSE j \in 0..(Len(a) - 1) :
                      /\ a[j + 1] \notin WS \cup {"cont"}
                      /\ IsBlank(SubSeq(a, j + CharLenAt(a, j) + 1, Len(a)))
         IN  SubSeq(a, 1, k + CharLenAt(a, k))

Trim(a) == SubSeq(TrimEnd(a), SkipWs(a, 0) + 1, Len(TrimEnd(a)))

C10_ExactlyOneLeadingSpace ==
    (mpc = "done") =>
        /\ \/ merged = <<>>
           \/ (Len(merged) >= 2 /\ merged[1] = " " /\ merged[2] \notin WS)
        /\ (NoClassMatch /\ ~IsBlank(attrs) /\ NewTokens # <<>>) =>
               merged = <<" ">> \o Trim(attrs) \o <<" ", "c", "l", "a", "s", "s", "=", "\"">>
                            \o Combined(add_classes, add_lang) \o <<"\"">>

\* C10, amended: the result is empty exactly when attrs is blank and there is
\* nothing to add; otherwise it is not blank and begins with a space, which is
\* put in front only of a text that does not begin with one; when neither
\* class pattern matches and attrs is not blank, the new class attribute
\* follows the attribute text as it is, not trimmed.
WithLeadingSpace(a) == IF a # <<>> /\ a[1] = " " THEN a ELSE <<" ">> \o a

C10_LeadingSpace ==
    (mpc = "done") =>
        /\ (merged = <<>>) <=> (IsBlank(attrs) /\ NewTokens = <<>>)
        /\ (merged # <<>>) => (merged[1] = " " /\ ~IsBlank(merged))
        /\ (merged # <<>> /\ NoClassMatch /\ NewTokens = <<>>) =>
               merged = WithLeadingSpace(attrs)
        /\ (NoClassMatch /\ ~IsBlank(attrs) /\ NewTokens # <<>>) =>
               merged = WithLeadingSpace(attrs) \o <<" ", "c", "l", "a", "s", "s", "=", "\"">>
                            \o Combined(add_classes, add_lang) \o <<"\"">>
        /\ (NoClassMatch /\ IsBlank(attrs) /\ NewTokens # <<>>) =>
               merged = <<" ", "c", "l", "a", "s", "s", "=", "\"">> \o Combined(add_classes, add_lang) \o <<"\"">>

\* A call that appends a class attribute to a text that begins with white space
\* and ends with it.
C10_Witness ==
    /\ mpc = "done"
    /\ NoClassMatch /\ ~IsBlank(attrs) /\ NewTokens # <<>>
    /\ attrs[1] \in WS /\ attrs[Len(attrs)] \in WS
    /\ Len(merged) >= 2 /\ merged[2] \in WS

(***************************************************************************)
(* Claims about highlight_html, under Spec.                                *)
(***************************************************************************)
\* Every match of the block pattern in d, left to right, none overlapping.
AllMatches(d) ==
    LET f[p \in 0..Len(d)] ==
            LET m == NextMatch(d, p)
            IN  IF m.ok THEN <<m>> \o f[m.end] ELSE <<>>
    IN  f[0]

\* The registered tokens of the class value extracted from an attribute string.
RegisteredTokens(a) ==
    IF extract_class_attr(a).some
    THEN SelectSeq(split_whitespace(extract_class_attr(a).val), LAMBDA t : t \in language_map)
    ELSE <<>>

\* The text of the input under a handled block.
Span(b) == SubSeq(input, b.start + 1, b.end)

\* C1: language resolution is two-tier: the first registered token of the
\* code class value whatever the pre class holds, else the first registered
\* token of the pre class value, else no language.
C1_TwoTierResolution ==
    \A j \in DOMAIN blocks :
        LET b == blocks[j]
        IN  IF RegisteredTokens(b.code_attrs) # <<>>
            THEN b.lang = Some(RegisteredTokens(b.code_attrs)[1])
            ELSE IF RegisteredTokens(b.pre_attrs) # <<>>
            THEN b.lang = Some(RegisteredTokens(b.pre_attrs)[1])
            ELSE b.lang = None

\* One block resolved from a code class with two registered tokens against a
\* pre class that names another language, and one resolved from its pre class.
C1_Witness ==
    /\ \E j \in DOMAIN blocks :
           /\ Len(RegisteredTokens(blocks[j].code_attrs)) >= 2
           /\ RegisteredTokens(blocks[j].pre_attrs) # <<>>
           /\ RegisteredTokens(blocks[j].pre_attrs)[1] # RegisteredTokens(blocks[j].code_attrs)[1]
           /\ blocks[j].lang.some
    /\ \E j \in DOMAIN blocks :
           /\ RegisteredTokens(blocks[j].code_attrs) = <<>>
           /\ blocks[j].lang.some

\* C2: a block whose language resolves and whose highlighting succeeds is
\* replaced by exactly the div, pre and code wrapper around the engine's output
\* for the decoded body, and in it the pre tag's class list holds sourceCode
\* and the code tag's class list holds sourceCode and the language name.
C2_ReplacementCarriesClasses ==
    \A j \in DOMAIN blocks :
        blocks[j].outcome = "ok" =>
            LET b == blocks[j]
                P == update_or_add_class(b.pre_attrs, SourceCode, None)
                C == update_or_add_class(b.code_attrs, SourceCode, b.lang)
            IN  /\ b.decoded = html_unescape(b.code).out
                /\ b.rendered \in Renderings
                /\ b.text = <<"<", "d", "i", "v", " ", "c", "l", "a", "s", "s", "=", "\"", "s", "o", "u", "r", "c", "e", "C", "o", "d", "e", "\"", ">", "<", "p", "r", "e">> \o P \o <<">", "<", "c", "o", "d", "e">> \o C \o <<">">>
                                \o b.rendered \o <<"<", "/", "c", "o", "d", "e", ">", "<", "/", "p", "r", "e", ">", "<", "/", "d", "i", "v", ">">>
                /\ HasClass(P, SourceCode)
                /\ HasClass(C, SourceCode)
                /\ HasClass(C, b.lang.val)

\* The output so far, put together from the input and the handled blocks:
\* the input between the blocks, and for each block its replacement when it
\* was highlighted and its own text otherwise.
Rebuilt ==
    LET f[j \in 1..(Len(blocks) + 1)] ==
            LET from == IF j = 1 THEN 0 ELSE blocks[j - 1].end
            IN  IF j > Len(blocks) THEN SubSeq(input, from + 1, pos)
                ELSE SubSeq(input, from + 1, blocks[j].start)
                         \o (IF blocks[j].outcome = "ok" THEN blocks[j].text ELSE Span(blocks[j]))
                         \o f[j + 1]
    IN  f[1]

\* C3: highlight_html changes only the spans of the blocks it highlights: the
\* text outside the matched blocks and every block with no registered language
\* in its code class or its pre class come out as they are and in their order,
\* and a document with no block is returned unchanged.
C3_OnlyHighlightedSpansChange ==
    /\ \A j \in DOMAIN blocks :
           /\ (IF j = 1 THEN 0 ELSE blocks[j - 1].end) <= blocks[j].start
           /\ blocks[j].start < blocks[j].end
           /\ blocks[j].end <= pos
           /\ (RegisteredTokens(blocks[j].code_attrs) = <<>>
                   /\ RegisteredTokens(blocks[j].pre_attrs) = <<>>) =>
                  (blocks[j].outcome = "pass" /\ blocks[j].text = Span(blocks[j]))
    /\ output = Rebuilt
    /\ (hpc = "done") => (pos = Len(input))
    /\ (hpc = "done" /\ AllMatches(input) = <<>>) => (output = input)

\* A returned document with text before a block that names no registered
\* language, and a highlighted block after it.
C3_Witness ==
    /\ hpc = "done"
    /\ \E j \in DOMAIN blocks :
           blocks[j].outcome = "pass" /\ blocks[j].start > 0 /\ Span(blocks[j]) # <<>>
    /\ \E j \in DOMAIN blocks : blocks[j].outcome = "ok"
    /\ output # input

\* C4: when the engine fails for a block, the block's matched text is copied
\* and the rewriting goes on: the blocks handled are the matches of the
\* document, one after the other, whichever of them failed, and when the
\* document is returned all of them were handled.
C4_EngineFailureIsLocal ==
    LET ms == AllMatches(input)
    IN  /\ \A j \in DOMAIN blocks :
               /\ blocks[j].outcome = "err" => blocks[j].text = Span(blocks[j])
               /\ j <= Len(ms)
               /\ blocks[j].start = ms[j].start
               /\ blocks[j].end = ms[j].end
               /\ blocks[j].outcome \in {"ok", "err"} <=> blocks[j].lang.some
               /\ blocks[j].outcome = "pass" => blocks[j].text = Span(blocks[j])
               /\ blocks[j].outcome = "ok" =>
                      blocks[j].text = Replacement(blocks[j].pre_attrs, blocks[j].code_attrs,
                                                   blocks[j].lang.val, blocks[j].rendered)
        /\ (hpc = "done") => (Len(blocks) = Len(ms))

\* A returned document in which a block was highlighted after an earlier
\* block's highlighting had failed.
C4_Witness ==
    /\ hpc = "done"
    /\ \E j, k \in DOMAIN blocks :
           j < k /\ blocks[j].outcome = "err" /\ blocks[k].outcome = "ok"

====
